---------------------------- MODULE Spec2Model ----------------------------
(***************************************************************************)
(* PyOS 1.06 (src/PyOS1.06/pyos.py): the in-memory file system, the file   *)
(* explorer, the notepad and the recycle bin, as a state machine.          *)
(*                                                                         *)
(* A Python str is a sequence of characters (one-character TLA+ strings),  *)
(* so that split, strip, "+" and the UTF-8 length are computed and not     *)
(* assumed.  A Python value of the nested dictionary is a tagged record:   *)
(*   [kind |-> "str",  text  |-> <<chars>>]        a file                  *)
(*   [kind |-> "dict", items |-> [key -> value]]   a folder                *)
(*   [kind |-> "list", elems |-> <<strs>>]         a recycled item's path  *)
(* Every handler runs to completion (Tk's single event thread); an         *)
(* exception ends the handler where it is raised and keeps what the        *)
(* handler had already written.                                            *)
(***************************************************************************)
EXTENDS Integers, Sequences, FiniteSets, TLC

VARIABLES
    file_system,   \* self.file_system: the root dict
    current_path,  \* self.current_path: list of keys
    tree,          \* self.tree: the explorer's Treeview (open, rows, bound)
    notepads,      \* the open Notepad windows: (filename, file_path)
    recycle_trees, \* the open Recycle Bin windows: each one's rows
    now,           \* datetime.datetime.now(), in seconds since start
    vocabulary,    \* what the user of this run types, selects and opens
    last           \* the handler that ran last and what it showed or raised

vars == <<file_system, current_path, tree, notepads, recycle_trees, now,
          vocabulary, last>>

---------------------------------------------------------------------------
(* Bounds of the model *)

\* quota, in bytes (the program's is 64 * 1024 * 1024, pyos.py:50-51)
storage_limit_bytes == 14
\* seconds the clock may advance
MaxTicks == 1
\* entries of the live tree beyond which nothing is created (the tree starts
\* with four), and in the runs that need one entry more, not two
MaxEntries == 6
FewEntries == 5
\* ... and in the runs that go two folders deep
ManyEntries == 7
\* items beyond which nothing more is moved to the recycle bin
MaxBin == 2
\* Notepad windows open at once
MaxNotepads == 1
\* Recycle Bin windows open at once
MaxRecycleWindows == 2
\* ... and in the runs that look at one window
OneWindow == 1

---------------------------------------------------------------------------
(* Strings *)

S_Documents == <<"D","o","c","u","m","e","n","t","s">>
S_Images == <<"I","m","a","g","e","s">>
S_my_first_file == <<"m","y","_","f","i","r","s","t","_","f","i","l","e",".","t","x","t">>
S_A_cool_folder == <<"A"," ","c","o","o","l"," ","f","o","l","d","e","r">>
S_Hello == <<"H","e","l","l","o",","," ","P","y","O","S","!">>
S_recyclebin == <<".","r","e","c","y","c","l","e","b","i","n">>
S_original_name == <<"o","r","i","g","i","n","a","l","_","n","a","m","e">>
S_original_path == <<"o","r","i","g","i","n","a","l","_","p","a","t","h">>
S_content == <<"c","o","n","t","e","n","t">>
S_DELETED == <<"_","D","E","L","E","T","E","D","_">>
S_restored == <<"_","r","e","s","t","o","r","e","d">>
S_Back == <<"[",".",".","]"," ","B","a","c","k">>
S_D == <<"[","D","]"," ">>
S_F == <<"[","F","]"," ">>
S_sep == <<"]"," ">>
\* the date of the run, as strftime("%Y%m%d") prints it
S_today == <<"2","0","2","5","0","1","0","1">>

\* bytes of one character in UTF-8; "U+00E9" stands for the character e-acute
Utf8Width(c) == IF c = "U+00E9" THEN 2 ELSE 1

\* len(s.encode('utf-8')): one byte a character, and one more for each
\* character two bytes wide
Utf8Len(s) == Len(s) + Cardinality({i \in 1..Len(s) : Utf8Width(s[i]) = 2})

IsSpace(c) == c \in {" ", "\n", "\t"}

\* str.strip()
Strip(s) ==
    LET inked == {i \in 1..Len(s) : ~IsSpace(s[i])}
    IN  IF inked = {} THEN <<>>
        ELSE SubSeq(s, CHOOSE i \in inked : \A j \in inked : i <= j,
                       CHOOSE i \in inked : \A j \in inked : i >= j)

\* sep stands in s at index i
MatchAt(s, i, sep) ==
    /\ i + Len(sep) - 1 <= Len(s)
    /\ \A j \in 1..Len(sep) : s[i + j - 1] = sep[j]

\* sub in s, for two strs
IsSubstring(sub, s) == \E i \in 1..(Len(s) + 1) : MatchAt(s, i, sub)

\* s.find(sep) + 1: the first index where sep stands, 0 when nowhere
Find(s, sep) ==
    LET hits == {i \in 1..Len(s) : MatchAt(s, i, sep)}
    IN  IF hits = {} THEN 0 ELSE CHOOSE i \in hits : \A j \in hits : i <= j

RECURSIVE Split(_, _)
\* s.split(sep): the list of the parts
Split(s, sep) ==
    LET i == Find(s, sep)
    IN  IF i = 0 THEN <<s>>
        ELSE <<SubSeq(s, 1, i - 1)>>
                 \o Split(SubSeq(s, i + Len(sep), Len(s)), sep)

Digit(d) == <<"0","1","2","3","4","5","6","7","8","9">>[d + 1]
TwoDigits(n) == <<Digit(n \div 10), Digit(n % 10)>>

\* datetime.datetime.now().strftime("%Y%m%d%H%M%S") at second t of the day
strftime(t) ==
    S_today \o TwoDigits(t \div 3600) \o TwoDigits((t \div 60) % 60)
            \o TwoDigits(t % 60)

---------------------------------------------------------------------------
(* Python values *)

PyStr(s) == [kind |-> "str", text |-> s]
PyDict(f) == [kind |-> "dict", items |-> f]
PyList(l) == [kind |-> "list", elems |-> l]
EmptyDict == PyDict(<<>>)

IsDict(v) == v.kind = "dict"
IsStr(v) == v.kind = "str"
Keys(d) == DOMAIN d.items

\* d[k] = v
DictSet(d, k, v) ==
    PyDict([x \in Keys(d) \cup {k} |-> IF x = k THEN v ELSE d.items[x]])

\* del d[k]
DictDel(d, k) == PyDict([x \in Keys(d) \ {k} |-> d.items[x]])

RECURSIVE GetAt(_, _)
\* the value a path of keys leads to, from a dict (the path must resolve)
GetAt(node, path) ==
    IF path = <<>> THEN node ELSE GetAt(node.items[Head(path)], Tail(path))

RECURSIVE SetAt(_, _, _)
\* the tree with the value at a path replaced: a write through a reference
SetAt(node, path, v) ==
    IF path = <<>> THEN v
    ELSE PyDict([node.items EXCEPT ![Head(path)] = SetAt(@, Tail(path), v)])

\* copy.deepcopy(v): values carry no identity, the copy is the value
deepcopy(v) == v

\* the file system of the module's start
in_memory_file_system ==
    PyDict([k \in {S_Documents, S_Images, S_recyclebin} |->
        IF k = S_Documents
        THEN PyDict([j \in {S_my_first_file, S_A_cool_folder} |->
                 IF j = S_my_first_file THEN PyStr(S_Hello) ELSE EmptyDict])
        ELSE EmptyDict])

---------------------------------------------------------------------------
(* Size of the file system *)

RECURSIVE SumOver(_, _)
SumOver(f, S) ==
    IF S = {} THEN 0
    ELSE LET k == CHOOSE x \in S : TRUE IN f[k] + SumOver(f, S \ {k})

RECURSIVE Encodable(_)
\* value.encode exists for every value of the walk that is not a dict
Encodable(node) ==
    \A k \in Keys(node) :
        IF IsDict(node.items[k]) THEN Encodable(node.items[k])
        ELSE IsStr(node.items[k])

RECURSIVE total_size(_)
\* the sum get_size returns when nothing raises
total_size(node) ==
    SumOver([k \in Keys(node) |->
                IF IsDict(node.items[k]) THEN total_size(node.items[k])
                ELSE Utf8Len(node.items[k].text)],
            Keys(node))

\* get_size(node): [ok, val]; not ok when value.encode raises AttributeError
\* (a value that is neither a dict nor a str)
get_size(node) ==
    IF Encodable(node) THEN [ok |-> TRUE, val |-> total_size(node)]
    ELSE [ok |-> FALSE, val |-> 0]

calculate_directory_size(fs) == get_size(fs)

\* what update_storage_display raises
update_storage_display(fs) ==
    IF calculate_directory_size(fs).ok THEN "" ELSE "AttributeError"

---------------------------------------------------------------------------
(* The explorer's current node and its rows *)

RECURSIVE Resolve(_, _)
Resolve(node, keys) ==
    IF keys = <<>> THEN [attached |-> TRUE, node |-> node]
    ELSE IF IsDict(node) /\ Head(keys) \in Keys(node)
         THEN Resolve(node.items[Head(keys)], Tail(keys))
         ELSE [attached |-> FALSE, node |-> EmptyDict]

\* get_current_node(): the node the path leads to (attached: a reference
\* into the tree, of whatever kind the last key holds), or a new empty dict
\* that is part of nothing when a key is missing on the way
get_current_node(fs, cp) == Resolve(fs, cp)

\* x in container
Contains(container, x) ==
    CASE container.kind = "dict" -> x \in Keys(container)
      [] container.kind = "str" -> IsSubstring(x, container.text)
      [] OTHER -> \E i \in 1..Len(container.elems) : container.elems[i] = x

\* current_node[k] = v written through the reference get_current_node gave
\* (current_node is a dict): a write to the detached dict changes nothing
StoreAt(fs, cp, cur, k, v) ==
    IF cur.attached THEN SetAt(fs, cp, DictSet(cur.node, k, v)) ELSE fs

\* del current_node[k]
RemoveAt(fs, cp, cur, k) ==
    IF cur.attached THEN SetAt(fs, cp, DictDel(cur.node, k)) ELSE fs

\* the text of an entry's row
RowText(item, value) == (IF IsDict(value) THEN S_D ELSE S_F) \o item

\* item_text.split("] ")[1]
item_name(item_text) == Split(item_text, S_sep)[2]

\* populate_tree(): the rows it leaves and what it raises
populate_tree(fs, cp) ==
    LET back == IF Len(cp) > 0 THEN {S_Back} ELSE {}
        current_node == get_current_node(fs, cp).node
    IN  IF ~IsDict(current_node)
        THEN [raised |-> "AttributeError", rows |-> back]
        ELSE [raised |-> "",
              rows |-> back \cup
                  {RowText(item, current_node.items[item]) :
                      item \in {i \in Keys(current_node) :
                                   ~(i = S_recyclebin /\ Len(cp) = 0)}}]

\* the Treeview after a populate_tree that gave p
Populated(tr, p) ==
    [open |-> TRUE, rows |-> p.rows, bound |-> tr.bound \/ p.raised = ""]

\* populate_tree() and then update_storage_display(): the Treeview they
\* leave and the first exception
populate_and_update(tr, fs, cp) ==
    LET p == populate_tree(fs, cp)
    IN  [tree |-> Populated(tr, p),
         raised |-> IF p.raised # "" THEN p.raised
                    ELSE update_storage_display(fs)]

\* refresh_file_explorer(): nothing when no explorer was opened
refresh_file_explorer(tr, fs, cp) ==
    IF tr.open THEN populate_and_update(tr, fs, cp)
    ELSE [tree |-> tr, raised |-> ""]

\* what the handler that ran last did: whether it wrote to the file system,
\* the dialogs it showed, the exception that ended it
Did(op, done, shown, raised) ==
    [op |-> op, done |-> done, shown |-> shown, raised |-> raised]

RECURSIVE CountEntries(_)
\* the keys of a dict and of the dicts below it
CountEntries(node) ==
    IF ~IsDict(node) THEN 0
    ELSE SumOver([k \in Keys(node) |-> 1 + CountEntries(node.items[k])],
                 Keys(node))

\* the entries outside the recycle bin
LiveEntries(fs) == CountEntries(DictDel(fs, S_recyclebin))

---------------------------------------------------------------------------
(* Start, clock, explorer *)

NoTree == [open |-> FALSE, rows |-> {}, bound |-> FALSE]

\* the rows the user of this run double-clicks
Opens(row) ==
    IF row = S_Back THEN TRUE ELSE item_name(row) \in vocabulary.opened

\* the rows the user of this run selects before Delete, and before Rename
Selects(row) ==
    IF row = S_Back THEN TRUE ELSE item_name(row) \in vocabulary.selected

SelectsToRename(row) ==
    IF row = S_Back THEN TRUE ELSE item_name(row) \in vocabulary.renamed

InitWith(names, texts, opened, selected, renamed, renames, windows, entries) ==
    /\ file_system = in_memory_file_system
    /\ current_path = <<>>
    /\ tree = NoTree
    /\ notepads = {}
    /\ recycle_trees = <<>>
    /\ now = 0
    /\ vocabulary = [names |-> names, texts |-> texts, opened |-> opened,
                     selected |-> selected, renamed |-> renamed,
                     renames |-> renames,
                     windows |-> windows, entries |-> entries]
    /\ last = Did("init", FALSE, <<>>, "")

S_a == <<"a">>
S_a_restored == S_a \o S_restored
S_abc == <<"a","b","c"," ">>
S_e_acute == <<"U+00E9">>

Init == InitWith({S_a, S_a_restored}, {S_e_acute, S_abc},
                 {S_a, S_a_restored, S_Documents},
                 {S_a, S_a_restored, S_Documents}, {S_a, S_a_restored},
                 {S_a, S_a_restored}, MaxRecycleWindows, MaxEntries)

\* a second passes
Tick ==
    /\ now < MaxTicks
    /\ now' = now + 1
    /\ last' = Did("tick", FALSE, <<>>, "")
    /\ UNCHANGED <<file_system, current_path, tree, notepads, recycle_trees,
                   vocabulary>>

\* show_file_explorer(): a new Treeview, populated
ShowFileExplorer ==
    /\ LET r == populate_and_update(NoTree, file_system, current_path)
       IN  /\ tree' = r.tree
           /\ last' = Did("show_file_explorer", FALSE, <<>>, r.raised)
    /\ UNCHANGED <<file_system, current_path, notepads, recycle_trees, now,
                   vocabulary>>

\* on_double_click_file_explorer(event), the row in focus
DoubleClick(row) ==
    /\ tree.open /\ tree.bound /\ row \in tree.rows /\ Opens(row)
    /\ LET cur == get_current_node(file_system, current_path)
           isBack == row = S_Back
           name == item_name(row)
           \* current_node.get on a str or a list
           raises == ~isBack /\ ~IsDict(cur.node)
           enters == /\ ~isBack /\ ~raises
                     /\ name \in Keys(cur.node) /\ IsDict(cur.node.items[name])
           opens == ~isBack /\ ~raises /\ ~enters
           path2 == IF isBack
                    THEN IF Len(current_path) > 0
                         THEN SubSeq(current_path, 1, Len(current_path) - 1)
                         ELSE current_path
                    ELSE IF enters THEN Append(current_path, name)
                         ELSE current_path
           window == [filename |-> <<name>>, file_path |-> <<current_path>>]
           p == populate_tree(file_system, path2)
       IN  /\ (opens /\ window \notin notepads) =>
                  Cardinality(notepads) < MaxNotepads
           /\ current_path' = path2
           /\ notepads' = IF opens THEN notepads \cup {window} ELSE notepads
           /\ tree' = IF raises THEN tree ELSE Populated(tree, p)
           /\ last' = Did("double_click", FALSE, <<>>,
                          IF raises THEN "AttributeError" ELSE p.raised)
    /\ UNCHANGED <<file_system, recycle_trees, now, vocabulary>>

\* show_notepad() from the Start menu: no file name, no path
ShowNotepad ==
    /\ Cardinality(notepads) < MaxNotepads
    /\ notepads' = notepads \cup {[filename |-> <<>>, file_path |-> <<>>]}
    /\ last' = Did("show_notepad", FALSE, <<>>, "")
    /\ UNCHANGED <<file_system, current_path, tree, recycle_trees, now,
                   vocabulary>>

\* a Notepad window is closed: its <Destroy> binding refreshes the explorer
CloseNotepad(window) ==
    /\ window \in notepads
    /\ notepads' = notepads \ {window}
    /\ LET r == refresh_file_explorer(tree, file_system, current_path)
       IN  /\ tree' = r.tree
           /\ last' = Did("close_notepad", FALSE, <<>>, r.raised)
    /\ UNCHANGED <<file_system, current_path, recycle_trees, now, vocabulary>>

---------------------------------------------------------------------------
(* Notepad: save *)

RECURSIVE PathIsTruthy(_, _)
\* the walk of window.file_path: every key leads to a dict that is not empty
\* ("not target_node" holds of None and of an empty dict alike)
PathIsTruthy(node, keys) ==
    \/ keys = <<>>
    \/ /\ Head(keys) \in Keys(node)
       /\ IsDict(node.items[Head(keys)])
       /\ Keys(node.items[Head(keys)]) # {}
       /\ PathIsTruthy(node.items[Head(keys)], Tail(keys))

\* a storage check that refuses nothing
SaveNeverRefused(current_total_size, size_change) == FALSE

\* the storage check of save: the save is refused
SaveRefused(current_total_size, size_change) ==
    current_total_size + size_change > storage_limit_bytes

\* "if save_as or not window.filename": the Save As dialog is shown
SaveAsks(window, save_as) ==
    IF save_as \/ window.filename = <<>> THEN TRUE
    ELSE window.filename[1] = <<>>

\* the overwrite question is put
SaveQuestion(fs, cp, window, save_as, new_name) ==
    /\ SaveAsks(window, save_as)
    /\ Contains(get_current_node(fs, cp).node, new_name)
    /\ window.filename # <<new_name>>

\* save_notepad_file(window, save_as) with the text of the widget, the name
\* typed in the Save As dialog and the answer to the overwrite question:
\* the file system, the window, the Treeview, the dialogs shown, the
\* exception raised, whether the content was written and under a new key
save_notepad_file(fs, cp, tr, window, save_as, text, new_name, overwrite) ==
    LET content == Strip(text)
        content_size == Utf8Len(content)
        bound_path == IF window.file_path = <<>> THEN <<>> ELSE window.file_path[1]
        invalid == bound_path # <<>> /\ ~PathIsTruthy(fs, bound_path)
        file_path1 == IF invalid THEN << <<>> >> ELSE window.file_path
        shown1 == IF invalid THEN <<"Save Error">> ELSE <<>>
        asks == SaveAsks(window, save_as)
        question == SaveQuestion(fs, cp, window, save_as, new_name)
        shown2 == IF question THEN Append(shown1, "File Exists") ELSE shown1
        declined == question /\ ~overwrite
        filename2 == IF asks THEN new_name ELSE window.filename[1]
        window2 == IF asks /\ ~declined
                   THEN [filename |-> <<new_name>>, file_path |-> <<cp>>]
                   ELSE [filename |-> window.filename, file_path |-> file_path1]
        target_path == IF asks THEN cp ELSE IF invalid THEN <<>> ELSE bound_path
        target == IF asks THEN get_current_node(fs, cp)
                  ELSE [attached |-> TRUE, node |-> GetAt(fs, target_path)]
        \* target_node.get(window.filename, "").encode('utf-8')
        old_raises == \/ ~IsDict(target.node)
                      \/ /\ filename2 \in Keys(target.node)
                         /\ ~IsStr(target.node.items[filename2])
        old_size == IF filename2 \in Keys(target.node)
                    THEN Utf8Len(target.node.items[filename2].text) ELSE 0
        total == calculate_directory_size(fs)
        fs2 == IF target.attached
               THEN SetAt(fs, target_path,
                          DictSet(target.node, filename2, PyStr(content)))
               ELSE fs
        u == update_storage_display(fs2)
        p == populate_tree(fs2, cp)
        same == [fs |-> fs, window |-> window2, shown |-> shown2,
                 raised |-> "", wrote |-> FALSE, created |-> FALSE, tree |-> tr]
    IN  IF declined THEN same
        ELSE IF old_raises \/ ~total.ok
        THEN [same EXCEPT !.raised = "AttributeError"]
        ELSE IF SaveRefused(total.val, content_size - old_size)
        THEN [same EXCEPT !.shown = Append(shown2, "Storage Full")]
        ELSE [fs |-> fs2, window |-> window2, shown |-> shown2, wrote |-> TRUE,
              created |-> target.attached /\ filename2 \notin Keys(target.node),
              \* self.status_bar_label is None until the explorer was opened;
              \* then update_storage_display() and refresh_file_explorer()
              raised |-> IF ~tr.open THEN "AttributeError"
                         ELSE IF u # "" THEN u ELSE p.raised,
              tree |-> IF ~tr.open \/ u # "" THEN tr ELSE Populated(tr, p)]

\* the Save and Save As commands of a window's File menu
SaveNotepadFile(window, save_as, text, new_name, overwrite) ==
    /\ window \in notepads
    \* inputs that no dialog asks for are not varied
    /\ ~SaveAsks(window, save_as) =>
           overwrite /\ new_name = CHOOSE n \in vocabulary.names : TRUE
    /\ ~SaveQuestion(file_system, current_path, window, save_as, new_name) =>
           overwrite
    /\ LET r == save_notepad_file(file_system, current_path, tree, window,
                                  save_as, text, new_name, overwrite)
       IN  /\ r.created => LiveEntries(file_system) < vocabulary.entries
           /\ file_system' = r.fs
           /\ notepads' = (notepads \ {window}) \cup {r.window}
           /\ tree' = r.tree
           /\ last' = Did("save", r.wrote, r.shown, r.raised)
    /\ UNCHANGED <<current_path, recycle_trees, now, vocabulary>>

---------------------------------------------------------------------------
(* Explorer: New File, New Folder, Rename, Delete *)

\* the storage check of New File: the file may be created
CreateAllowed(current_total_size) == current_total_size < storage_limit_bytes

\* create_file_dialog() with the name typed
create_file_dialog(fs, cp, tr, new_file_name) ==
    LET total == calculate_directory_size(fs)
        cur == get_current_node(fs, cp)
        fs2 == StoreAt(fs, cp, cur, new_file_name, PyStr(<<>>))
        r == populate_and_update(tr, fs2, cp)
        same == [fs |-> fs, tree |-> tr, done |-> FALSE, shown |-> <<>>,
                 raised |-> ""]
    IN  IF ~total.ok THEN [same EXCEPT !.raised = "AttributeError"]
        ELSE IF ~CreateAllowed(total.val)
        THEN [same EXCEPT !.shown = <<"Storage Full">>]
        ELSE IF Contains(cur.node, new_file_name)
        THEN [same EXCEPT !.shown = <<"File Exists">>]
        \* item assignment on a str or a list
        ELSE IF ~IsDict(cur.node) THEN [same EXCEPT !.raised = "TypeError"]
        ELSE [fs |-> fs2, tree |-> r.tree, done |-> TRUE, shown |-> <<>>,
              raised |-> r.raised]

CreateFile(new_file_name) ==
    /\ tree.open
    /\ LET r == create_file_dialog(file_system, current_path, tree,
                                   new_file_name)
       IN  /\ r.fs # file_system => LiveEntries(file_system) < vocabulary.entries
           /\ file_system' = r.fs
           /\ tree' = r.tree
           /\ last' = Did("create_file", r.done, r.shown, r.raised)
    /\ UNCHANGED <<current_path, notepads, recycle_trees, now, vocabulary>>

\* create_folder_dialog() with the name typed
create_folder_dialog(fs, cp, tr, new_folder_name) ==
    LET cur == get_current_node(fs, cp)
        fs2 == StoreAt(fs, cp, cur, new_folder_name, EmptyDict)
        r == populate_and_update(tr, fs2, cp)
        same == [fs |-> fs, tree |-> tr, done |-> FALSE, shown |-> <<>>,
                 raised |-> ""]
    IN  IF Contains(cur.node, new_folder_name)
        THEN [same EXCEPT !.shown = <<"Folder Exists">>]
        ELSE IF ~IsDict(cur.node) THEN [same EXCEPT !.raised = "TypeError"]
        ELSE [fs |-> fs2, tree |-> r.tree, done |-> TRUE, shown |-> <<>>,
              raised |-> r.raised]

CreateFolder(new_folder_name) ==
    /\ tree.open
    /\ LET r == create_folder_dialog(file_system, current_path, tree,
                                     new_folder_name)
       IN  /\ r.fs # file_system => LiveEntries(file_system) < vocabulary.entries
           /\ file_system' = r.fs
           /\ tree' = r.tree
           /\ last' = Did("create_folder", r.done, r.shown, r.raised)
    /\ UNCHANGED <<current_path, notepads, recycle_trees, now, vocabulary>>

\* rename_selected_item() with the row in focus and the name typed
rename_selected_item(fs, cp, tr, row, new_name) ==
    LET old_name == item_name(row)
        cur == get_current_node(fs, cp)
        fs2 == StoreAt(fs, cp, [cur EXCEPT !.node = DictDel(cur.node, old_name)],
                       new_name, cur.node.items[old_name])
        p == populate_tree(fs2, cp)
        same == [fs |-> fs, tree |-> tr, done |-> FALSE, shown |-> <<>>,
                 raised |-> ""]
    IN  IF row = S_Back THEN [same EXCEPT !.shown = <<"Cannot Rename">>]
        ELSE IF new_name = old_name THEN same
        ELSE IF Contains(cur.node, new_name)
        THEN [same EXCEPT !.shown = <<"Name Exists">>]
        \* current_node.pop on a str or a list
        ELSE IF ~IsDict(cur.node) THEN [same EXCEPT !.raised = "AttributeError"]
        ELSE IF old_name \notin Keys(cur.node)
        THEN [same EXCEPT !.raised = "KeyError"]
        ELSE [fs |-> fs2, tree |-> Populated(tr, p), done |-> TRUE,
              shown |-> <<>>, raised |-> p.raised]

RenameSelectedItem(row, new_name) ==
    /\ tree.open /\ row \in tree.rows /\ SelectsToRename(row)
    /\ LET r == rename_selected_item(file_system, current_path, tree, row,
                                     new_name)
       IN  /\ file_system' = r.fs
           /\ tree' = r.tree
           /\ last' = Did("rename", r.done, r.shown, r.raised)
    /\ UNCHANGED <<current_path, notepads, recycle_trees, now, vocabulary>>

\* f"{item_name}_DELETED_{timestamp}"
recycle_key(name, timestamp) == name \o S_DELETED \o timestamp

\* the record delete_selected_item puts into the recycle bin
recycle_item(name, cp, item_to_move) ==
    PyDict([k \in {S_original_name, S_original_path, S_content} |->
        IF k = S_original_name THEN PyStr(name)
        ELSE IF k = S_original_path THEN PyList(cp)
        ELSE item_to_move])

\* delete_selected_item() with the row in focus, the question answered yes,
\* at the time t
delete_selected_item(fs, cp, tr, row, t) ==
    LET name == item_name(row)
        cur == get_current_node(fs, cp)
        item_to_move == deepcopy(cur.node.items[name])
        fs1 == RemoveAt(fs, cp, cur, name)
        key == recycle_key(name, strftime(t))
        fs2 == SetAt(fs1, <<S_recyclebin>>,
                     DictSet(fs1.items[S_recyclebin], key,
                             recycle_item(name, cp, item_to_move)))
        r == populate_and_update(tr, fs2, cp)
        same == [fs |-> fs, tree |-> tr, done |-> FALSE, shown |-> <<>>,
                 raised |-> ""]
    IN  IF row = S_Back THEN [same EXCEPT !.shown = <<"Cannot Delete">>]
        ELSE IF ~Contains(cur.node, name) THEN same
        \* current_node[item_name] on a str or a list
        ELSE IF ~IsDict(cur.node) THEN [same EXCEPT !.raised = "TypeError"]
        \* the item is gone from its folder when the recycle bin is missed
        ELSE IF S_recyclebin \notin Keys(fs1)
        THEN [same EXCEPT !.fs = fs1, !.raised = "KeyError"]
        ELSE IF ~IsDict(fs1.items[S_recyclebin])
        THEN [same EXCEPT !.fs = fs1, !.raised = "TypeError"]
        ELSE [fs |-> fs2, tree |-> r.tree, done |-> TRUE, shown |-> <<>>,
              raised |-> r.raised]

\* the items of the recycle bin
BinKeys(fs) ==
    IF S_recyclebin \in Keys(fs) /\ IsDict(fs.items[S_recyclebin])
    THEN Keys(fs.items[S_recyclebin]) ELSE {}

DeleteSelectedItem(row) ==
    /\ tree.open /\ row \in tree.rows /\ Selects(row)
    /\ LET r == delete_selected_item(file_system, current_path, tree, row, now)
       IN  /\ Cardinality(BinKeys(r.fs)) <= MaxBin
           /\ file_system' = r.fs
           /\ tree' = r.tree
           /\ last' = Did("delete", r.done, r.shown, r.raised)
    /\ UNCHANGED <<current_path, notepads, recycle_trees, now, vocabulary>>

---------------------------------------------------------------------------
(* Recycle bin window *)

\* value['original_name'], value['original_path'] and value['content'] exist
WellFormed(value) ==
    /\ IsDict(value)
    /\ {S_original_name, S_original_path, S_content} \subseteq Keys(value)
    /\ IsStr(value.items[S_original_name])
    /\ value.items[S_original_path].kind = "list"

\* populate_recycle_bin(tree_widget): what it raises and the rows it may
\* leave, each the key of an item; the loop stops at the first item it
\* cannot read, after any of the others
populate_recycle_bin(fs) ==
    IF S_recyclebin \notin Keys(fs)
    THEN [raised |-> "KeyError", rows |-> {{}}]
    ELSE IF ~IsDict(fs.items[S_recyclebin])
    THEN [raised |-> "AttributeError", rows |-> {{}}]
    ELSE LET bin == fs.items[S_recyclebin]
             good == {k \in Keys(bin) : WellFormed(bin.items[k])}
         IN  IF good = Keys(bin) THEN [raised |-> "", rows |-> {good}]
             ELSE [raised |-> "TypeError", rows |-> SUBSET good]

\* show_recycle_bin_management(): one more window
ShowRecycleBin ==
    /\ tree.open
    /\ Len(recycle_trees) < vocabulary.windows
    /\ LET p == populate_recycle_bin(file_system)
       IN  /\ \E rows \in p.rows : recycle_trees' = Append(recycle_trees, rows)
           /\ last' = Did("show_recycle_bin", FALSE, <<>>, p.raised)
    /\ UNCHANGED <<file_system, current_path, tree, notepads, now, vocabulary>>

RECURSIVE RestorePathPartial(_, _, _)
\* a restore that stays in the folder it had reached when a key was missed
RestorePathPartial(fs, keys, i) ==
    IF i > Len(keys) THEN [path |-> keys, missing |-> FALSE]
    ELSE LET restore_node == GetAt(fs, SubSeq(keys, 1, i - 1))
         IN  IF /\ keys[i] \in Keys(restore_node)
                /\ IsDict(restore_node.items[keys[i]])
             THEN RestorePathPartial(fs, keys, i + 1)
             ELSE [path |-> SubSeq(keys, 1, i - 1), missing |-> TRUE]

RECURSIVE RestorePath(_, _, _)
\* the loop over original_path_list: the folder to restore into, as a path,
\* and whether a key was missed on the way
RestorePath(fs, keys, i) ==
    IF i > Len(keys) THEN [path |-> keys, missing |-> FALSE]
    ELSE LET restore_node == GetAt(fs, SubSeq(keys, 1, i - 1))
         IN  IF /\ keys[i] \in Keys(restore_node)
                /\ IsDict(restore_node.items[keys[i]])
             THEN RestorePath(fs, keys, i + 1)
             ELSE [path |-> <<>>, missing |-> TRUE]

\* a restore that keeps the name although it is taken
restored_name_kept(original_name) == original_name

\* the name an item gets when its own is taken and the answer is yes
restored_name(original_name) == original_name \o S_restored

\* restore_item(tree_widget) with the key of the row in focus and the
\* answer to the name-conflict question
restore_item(fs, cp, tr, key_to_restore, response) ==
    LET bin == fs.items[S_recyclebin]
        item_data == bin.items[key_to_restore]
        original_name == item_data.items[S_original_name].text
        content_to_restore == item_data.items[S_content]
        where == RestorePath(fs, item_data.items[S_original_path].elems, 1)
        restore_node == GetAt(fs, where.path)
        shown1 == IF where.missing THEN <<"Path Missing">> ELSE <<>>
        conflict == original_name \in Keys(restore_node)
        shown2 == IF conflict THEN Append(shown1, "Name Conflict") ELSE shown1
        name2 == IF conflict THEN restored_name(original_name) ELSE original_name
        fs1 == SetAt(fs, where.path,
                     DictSet(restore_node, name2, content_to_restore))
        fs2 == SetAt(fs1, <<S_recyclebin>>,
                     DictDel(fs1.items[S_recyclebin], key_to_restore))
        pr == populate_recycle_bin(fs2)
        r == refresh_file_explorer(tr, fs2, cp)
        same == [fs |-> fs, tree |-> tr, done |-> FALSE, shown |-> <<>>,
                 raised |-> "", rows |-> {}, repopulated |-> FALSE]
    IN  IF S_recyclebin \notin Keys(fs) THEN [same EXCEPT !.raised = "KeyError"]
        ELSE IF ~IsDict(bin) THEN [same EXCEPT !.raised = "AttributeError"]
        \* "if not item_data": no such key, or an empty dict
        ELSE IF key_to_restore \notin Keys(bin) THEN same
        ELSE IF IsDict(item_data) /\ Keys(item_data) = {} THEN same
        ELSE IF ~WellFormed(item_data) THEN [same EXCEPT !.raised = "KeyError"]
        ELSE IF conflict /\ ~response THEN [same EXCEPT !.shown = shown2]
        \* the item is written; then del self.file_system['.recyclebin'][key]
        ELSE IF S_recyclebin \notin Keys(fs1)
                  \/ ~IsDict(fs1.items[S_recyclebin])
                  \/ key_to_restore \notin Keys(fs1.items[S_recyclebin])
        THEN [same EXCEPT !.fs = fs1, !.shown = shown2, !.raised = "KeyError"]
        ELSE [fs |-> fs2, done |-> TRUE, shown |-> Append(shown2, "Restored"),
              rows |-> pr.rows, repopulated |-> TRUE,
              tree |-> IF pr.raised # "" THEN tr ELSE r.tree,
              raised |-> IF pr.raised # "" THEN pr.raised ELSE r.raised]

\* the question restore_item puts when the name is taken
RestoreConflict(fs, key_to_restore) ==
    /\ key_to_restore \in BinKeys(fs)
    /\ LET item_data == fs.items[S_recyclebin].items[key_to_restore]
       IN  /\ WellFormed(item_data)
           /\ item_data.items[S_original_name].text \in
                Keys(GetAt(fs, RestorePath(fs,
                       item_data.items[S_original_path].elems, 1).path))

RestoreItem(w, key_to_restore, response) ==
    /\ w \in 1..Len(recycle_trees)
    /\ key_to_restore \in recycle_trees[w]
    \* an answer that no dialog asks for is not varied
    /\ ~RestoreConflict(file_system, key_to_restore) => response
    /\ LET r == restore_item(file_system, current_path, tree, key_to_restore,
                             response)
       IN  /\ r.fs # file_system =>
                  IF LiveEntries(r.fs) <= vocabulary.entries THEN TRUE
                  ELSE LiveEntries(r.fs) <= LiveEntries(file_system)
           /\ file_system' = r.fs
           /\ tree' = r.tree
           /\ IF r.repopulated
              THEN \E rows \in r.rows :
                       recycle_trees' = [recycle_trees EXCEPT ![w] = rows]
              ELSE recycle_trees' = recycle_trees
           /\ last' = Did("restore", r.done, r.shown, r.raised)
    /\ UNCHANGED <<current_path, notepads, now, vocabulary>>

\* a Permanently Delete that passes over a key that is not in the bin
purge_silently(fs, key_to_delete) ==
    LET fs2 == SetAt(fs, <<S_recyclebin>>,
                     DictDel(fs.items[S_recyclebin], key_to_delete))
    IN  IF key_to_delete \in BinKeys(fs)
        THEN [fs |-> fs2, done |-> TRUE, raised |-> "",
              rows |-> populate_recycle_bin(fs2).rows, repopulated |-> TRUE]
        ELSE [fs |-> fs, done |-> FALSE, raised |-> "", rows |-> {},
              repopulated |-> FALSE]

\* permanently_delete_item(tree_widget) with the key of the row in focus,
\* the question answered yes
permanently_delete_item(fs, key_to_delete) ==
    LET fs2 == SetAt(fs, <<S_recyclebin>>,
                     DictDel(fs.items[S_recyclebin], key_to_delete))
        pr == populate_recycle_bin(fs2)
        same == [fs |-> fs, done |-> FALSE, raised |-> "", rows |-> {},
                 repopulated |-> FALSE]
    IN  IF S_recyclebin \notin Keys(fs) THEN [same EXCEPT !.raised = "KeyError"]
        ELSE IF ~IsDict(fs.items[S_recyclebin])
        THEN [same EXCEPT !.raised = "TypeError"]
        ELSE IF key_to_delete \notin Keys(fs.items[S_recyclebin])
        THEN [same EXCEPT !.raised = "KeyError"]
        ELSE [fs |-> fs2, done |-> TRUE, rows |-> pr.rows,
              repopulated |-> TRUE,
              raised |-> IF pr.raised # "" THEN pr.raised
                         ELSE update_storage_display(fs2)]

PermanentlyDeleteItem(w, key_to_delete) ==
    /\ w \in 1..Len(recycle_trees)
    /\ key_to_delete \in recycle_trees[w]
    /\ LET r == permanently_delete_item(file_system, key_to_delete)
       IN  /\ file_system' = r.fs
           /\ IF r.repopulated
              THEN \E rows \in r.rows :
                       recycle_trees' = [recycle_trees EXCEPT ![w] = rows]
              ELSE recycle_trees' = recycle_trees
           /\ last' = Did("purge", r.done, <<>>, r.raised)
    /\ UNCHANGED <<current_path, tree, notepads, now, vocabulary>>

\* an Empty Recycle Bin that takes out one item and leaves the others
empty_one_item(fs, cp, tr) ==
    LET bin == fs.items[S_recyclebin]
        k == CHOOSE x \in Keys(bin) : TRUE
    IN  [fs |-> SetAt(fs, <<S_recyclebin>>,
                      IF Keys(bin) = {} THEN bin ELSE DictDel(bin, k)),
         tree |-> tr, done |-> Keys(bin) # {}, shown |-> <<>>, raised |-> "",
         destroyed |-> Keys(bin) # {}, count |-> Cardinality(Keys(bin))]

\* empty_recycle_bin(), the question answered yes; count is the number of
\* items the handler counts and names in its question
empty_recycle_bin(fs, cp, tr) ==
    LET fs2 == SetAt(fs, <<S_recyclebin>>, EmptyDict)
        r == refresh_file_explorer(tr, fs2, cp)
        same == [fs |-> fs, tree |-> tr, done |-> FALSE, shown |-> <<>>,
                 raised |-> "", destroyed |-> FALSE, count |-> 0]
    IN  IF S_recyclebin \notin Keys(fs) THEN [same EXCEPT !.raised = "KeyError"]
        \* len() of the str a save may have put there
        ELSE IF IsDict(fs.items[S_recyclebin])
                  /\ Keys(fs.items[S_recyclebin]) = {}
        THEN [same EXCEPT !.shown = <<"Recycle Bin">>]
        ELSE IF IsStr(fs.items[S_recyclebin])
                  /\ fs.items[S_recyclebin].text = <<>>
        THEN [same EXCEPT !.shown = <<"Recycle Bin">>]
        ELSE [fs |-> fs2, tree |-> r.tree, done |-> TRUE, shown |-> <<>>,
              raised |-> r.raised, destroyed |-> TRUE,
              count |-> IF IsDict(fs.items[S_recyclebin])
                        THEN Cardinality(Keys(fs.items[S_recyclebin]))
                        ELSE Len(fs.items[S_recyclebin].text)]

\* the button is in every Recycle Bin window
EmptyRecycleBin ==
    /\ Len(recycle_trees) > 0
    /\ LET r == empty_recycle_bin(file_system, current_path, tree)
       IN  /\ file_system' = r.fs
           /\ tree' = r.tree
           /\ recycle_trees' = IF r.destroyed THEN <<>> ELSE recycle_trees
           /\ last' = Did("empty", r.done, r.shown, r.raised)
    /\ UNCHANGED <<current_path, notepads, now, vocabulary>>

---------------------------------------------------------------------------
(* The system *)

Next ==
    \/ Tick
    \/ ShowFileExplorer
    \/ \E row \in tree.rows : DoubleClick(row)
    \/ ShowNotepad
    \/ \E window \in notepads : CloseNotepad(window)
    \/ \E window \in notepads, save_as \in BOOLEAN, text \in vocabulary.texts,
          new_name \in vocabulary.names, overwrite \in BOOLEAN :
          SaveNotepadFile(window, save_as, text, new_name, overwrite)
    \/ \E new_file_name \in vocabulary.names : CreateFile(new_file_name)
    \/ \E new_folder_name \in vocabulary.names : CreateFolder(new_folder_name)
    \/ \E row \in tree.rows, new_name \in vocabulary.renames :
          RenameSelectedItem(row, new_name)
    \/ \E row \in tree.rows : DeleteSelectedItem(row)
    \/ ShowRecycleBin
    \/ \E w \in 1..Len(recycle_trees), key \in
              UNION {recycle_trees[i] : i \in 1..Len(recycle_trees)},
          response \in BOOLEAN : RestoreItem(w, key, response)
    \/ \E w \in 1..Len(recycle_trees), key \in
              UNION {recycle_trees[i] : i \in 1..Len(recycle_trees)} :
          PermanentlyDeleteItem(w, key)
    \/ EmptyRecycleBin

Spec == Init /\ [][Next]_vars

---------------------------------------------------------------------------
(* The explorer and one Recycle Bin window: folders are created, deleted    *)
(* and restored                                                             *)

InitRecycle == InitWith({S_a, S_a_restored}, {}, {S_a, S_a_restored},
                        {S_a, S_a_restored}, {}, {}, OneWindow, MaxEntries)

NextRecycle ==
    \/ Tick
    \/ ShowFileExplorer
    \/ \E row \in tree.rows : DoubleClick(row)
    \/ \E new_folder_name \in vocabulary.names : CreateFolder(new_folder_name)
    \/ \E row \in tree.rows : DeleteSelectedItem(row)
    \/ ShowRecycleBin
    \/ \E w \in 1..Len(recycle_trees), key \in
              UNION {recycle_trees[i] : i \in 1..Len(recycle_trees)},
          response \in BOOLEAN : RestoreItem(w, key, response)

SpecRecycle == InitRecycle /\ [][NextRecycle]_vars

---------------------------------------------------------------------------
(* The explorer and a Notepad: files are created, saved and deleted         *)

InitNotepad == InitWith({S_a}, {S_e_acute, S_abc}, {S_a, S_Documents},
                        {S_a, S_Documents}, {}, {}, OneWindow, MaxEntries)

NextNotepad ==
    \/ ShowFileExplorer
    \/ \E row \in tree.rows : DoubleClick(row)
    \/ ShowNotepad
    \/ \E window \in notepads : CloseNotepad(window)
    \/ \E window \in notepads, save_as \in BOOLEAN, text \in vocabulary.texts,
          new_name \in vocabulary.names, overwrite \in BOOLEAN :
          SaveNotepadFile(window, save_as, text, new_name, overwrite)
    \/ \E new_file_name \in vocabulary.names : CreateFile(new_file_name)
    \/ \E row \in tree.rows : DeleteSelectedItem(row)

SpecNotepad == InitNotepad /\ [][NextNotepad]_vars

---------------------------------------------------------------------------
(* Two Recycle Bin windows on the same bin                                  *)

InitWindows == InitWith({S_a}, {}, {}, {S_a}, {}, {}, MaxRecycleWindows,
                        MaxEntries)

NextWindows ==
    \/ Tick
    \/ ShowFileExplorer
    \/ \E new_folder_name \in vocabulary.names : CreateFolder(new_folder_name)
    \/ \E row \in tree.rows : DeleteSelectedItem(row)
    \/ ShowRecycleBin
    \/ \E w \in 1..Len(recycle_trees), key \in
              UNION {recycle_trees[i] : i \in 1..Len(recycle_trees)},
          response \in BOOLEAN : RestoreItem(w, key, response)
    \/ \E w \in 1..Len(recycle_trees), key \in
              UNION {recycle_trees[i] : i \in 1..Len(recycle_trees)} :
          PermanentlyDeleteItem(w, key)
    \/ EmptyRecycleBin

SpecWindows == InitWindows /\ [][NextWindows]_vars

---------------------------------------------------------------------------
(* Restoring below Documents: folders are deleted and a file is renamed to  *)
(* the name a folder had                                                    *)

InitPath == InitWith({S_a}, {}, {S_Documents, S_A_cool_folder},
                     {S_a, S_A_cool_folder}, {S_my_first_file},
                     {S_A_cool_folder}, OneWindow, FewEntries)

NextPath ==
    \/ ShowFileExplorer
    \/ \E row \in tree.rows : DoubleClick(row)
    \/ \E new_folder_name \in vocabulary.names : CreateFolder(new_folder_name)
    \/ \E row \in tree.rows, new_name \in vocabulary.renames :
          RenameSelectedItem(row, new_name)
    \/ \E row \in tree.rows : DeleteSelectedItem(row)
    \/ ShowRecycleBin
    \/ \E w \in 1..Len(recycle_trees), key \in
              UNION {recycle_trees[i] : i \in 1..Len(recycle_trees)},
          response \in BOOLEAN : RestoreItem(w, key, response)

SpecPath == InitPath /\ [][NextPath]_vars

---------------------------------------------------------------------------
(* Navigating while a Recycle Bin window is open: folders are created and   *)
(* entered, one is deleted and restored                                     *)

InitNavigate == InitWith({S_a, S_a_restored}, {}, {S_a, S_a_restored}, {S_a},
                         {}, {}, OneWindow, ManyEntries)

NextNavigate ==
    \/ ShowFileExplorer
    \/ \E row \in tree.rows : DoubleClick(row)
    \/ \E new_folder_name \in vocabulary.names : CreateFolder(new_folder_name)
    \/ \E row \in tree.rows : DeleteSelectedItem(row)
    \/ ShowRecycleBin
    \/ \E w \in 1..Len(recycle_trees), key \in
              UNION {recycle_trees[i] : i \in 1..Len(recycle_trees)},
          response \in BOOLEAN : RestoreItem(w, key, response)

SpecNavigate == InitNavigate /\ [][NextNavigate]_vars

---------------------------------------------------------------------------
(* Names that hold the separator of the rows: folders are created under     *)
(* them, and their rows are opened, renamed and deleted                     *)

S_a_b == <<"a", "]", " ", "b">>
S_recyclebin_y == S_recyclebin \o <<"]", " ", "y">>

InitSelect == InitWith({S_a, S_a_b, S_recyclebin_y}, {}, {S_recyclebin},
                       {S_a, S_recyclebin}, {S_a, S_recyclebin}, {S_a, S_a_b},
                       OneWindow, MaxEntries)

NextSelect ==
    \/ ShowFileExplorer
    \/ \E row \in tree.rows : DoubleClick(row)
    \/ \E new_folder_name \in vocabulary.names : CreateFolder(new_folder_name)
    \/ \E row \in tree.rows, new_name \in vocabulary.renames :
          RenameSelectedItem(row, new_name)
    \/ \E row \in tree.rows : DeleteSelectedItem(row)
    \/ ShowRecycleBin

SpecSelect == InitSelect /\ [][NextSelect]_vars

---------------------------------------------------------------------------
(* A Notepad on a file of a folder that is emptied: the file is created in  *)
(* Images, opened, deleted, and the recycle bin is emptied                  *)

InitSave == InitWith({S_a}, {S_e_acute}, {S_a, S_Images}, {S_a}, {}, {},
                     OneWindow, MaxEntries)

NextSave ==
    \/ ShowFileExplorer
    \/ \E row \in tree.rows : DoubleClick(row)
    \/ \E window \in notepads, save_as \in BOOLEAN, text \in vocabulary.texts,
          new_name \in vocabulary.names, overwrite \in BOOLEAN :
          SaveNotepadFile(window, save_as, text, new_name, overwrite)
    \/ \E new_file_name \in vocabulary.names : CreateFile(new_file_name)
    \/ \E row \in tree.rows : DeleteSelectedItem(row)
    \/ ShowRecycleBin
    \/ EmptyRecycleBin

SpecSave == InitSave /\ [][NextSave]_vars

---------------------------------------------------------------------------
(* The quota: a file is created, saved with texts that fit and that do not, *)
(* renamed, deleted, restored, purged, and the recycle bin is emptied       *)

InitQuota == InitWith({S_a}, {S_e_acute, S_abc}, {S_a, S_Documents},
                      {S_a}, {S_a}, {S_a_restored}, OneWindow, MaxEntries)

NextQuota ==
    \/ ShowFileExplorer
    \/ \E row \in tree.rows : DoubleClick(row)
    \/ ShowNotepad
    \/ \E window \in notepads, save_as \in BOOLEAN, text \in vocabulary.texts,
          new_name \in vocabulary.names, overwrite \in BOOLEAN :
          SaveNotepadFile(window, save_as, text, new_name, overwrite)
    \/ \E new_file_name \in vocabulary.names : CreateFile(new_file_name)
    \/ \E row \in tree.rows, new_name \in vocabulary.renames :
          RenameSelectedItem(row, new_name)
    \/ \E row \in tree.rows : DeleteSelectedItem(row)
    \/ ShowRecycleBin
    \/ \E w \in 1..Len(recycle_trees), key \in
              UNION {recycle_trees[i] : i \in 1..Len(recycle_trees)},
          response \in BOOLEAN : RestoreItem(w, key, response)
    \/ \E w \in 1..Len(recycle_trees), key \in
              UNION {recycle_trees[i] : i \in 1..Len(recycle_trees)} :
          PermanentlyDeleteItem(w, key)
    \/ EmptyRecycleBin

SpecQuota == InitQuota /\ [][NextQuota]_vars

---------------------------------------------------------------------------
(* Properties *)

\* the recycle bin of a file system that has one
Bin(fs) == fs.items[S_recyclebin]

\* the live tree: everything but the recycle bin
Live(fs) == DictDel(fs, S_recyclebin)

\* the rows Delete can act on in this state
DeletableRows == {row \in tree.rows : Selects(row)}

\* C1: every successful delete adds exactly one item to the recycle bin,
\* under a key that was not in the bin, and leaves every item that was in
\* the bin present and unchanged
C1_DeleteAddsOneNewItem ==
    \A row \in DeletableRows :
        LET d == delete_selected_item(file_system, current_path, tree, row, now)
        IN  d.done =>
              /\ Cardinality(BinKeys(d.fs) \ BinKeys(file_system)) = 1
              /\ \A k \in BinKeys(file_system) :
                    /\ k \in BinKeys(d.fs)
                    /\ Bin(d.fs).items[k] = Bin(file_system).items[k]

\* C2: a delete followed at once by the restore of the key the delete made
\* gives back the file system as it was before the delete: the entry with
\* all below it at its place, the key gone, the other items of the bin and
\* the rest of the tree as before
C2_DeleteRestoreRoundTrip ==
    \A row \in DeletableRows :
        LET d == delete_selected_item(file_system, current_path, tree, row, now)
            token == recycle_key(item_name(row), strftime(now))
            r == restore_item(d.fs, current_path, d.tree, token, TRUE)
        IN  d.done => r.done /\ r.fs = file_system

RECURSIVE FileBytes(_)
\* the bytes of the files at and below a value
FileBytes(value) ==
    IF IsStr(value) THEN Utf8Len(value.text)
    ELSE IF IsDict(value)
    THEN SumOver([k \in Keys(value) |-> FileBytes(value.items[k])], Keys(value))
    ELSE 0

\* usedBytes: the files of the live tree and the files of the recycled
\* payloads
UsedBytes(fs) ==
    FileBytes(Live(fs)) +
    SumOver([k \in BinKeys(fs) |-> FileBytes(Bin(fs).items[k].items[S_content])],
            BinKeys(fs))

\* a dialog of that title is among those shown
Shows(shown, title) == \E i \in 1..Len(shown) : shown[i] = title

\* C3: a save that would take the bytes in use above the limit is refused
\* with "Storage Full" and changes nothing; a save that keeps them at or
\* below the limit is done, and the file then holds the new content;
\* whatever the live tree and the recycle bin hold
C3_QuotaOnSave ==
    \A window \in notepads, save_as \in BOOLEAN, text \in vocabulary.texts,
       new_name \in vocabulary.names :
        LET r == save_notepad_file(file_system, current_path, tree, window,
                                   save_as, text, new_name, TRUE)
            name == r.window.filename[1]
            before == Resolve(file_system, r.window.file_path[1]).node
            after == Resolve(r.fs, r.window.file_path[1]).node
            oldSize == IF name \in Keys(before) THEN FileBytes(before.items[name])
                       ELSE 0
            newSize == Utf8Len(Strip(text))
        IN  IF UsedBytes(file_system) + (newSize - oldSize) > storage_limit_bytes
            THEN r.fs = file_system /\ Shows(r.shown, "Storage Full")
            ELSE /\ name \in Keys(after)
                 /\ after.items[name] = PyStr(Strip(text))

\* C4: the size computation returns a value, and the value is the bytes of
\* the files of the live tree and of the recycled payloads, nothing else
C4_TotalSizeIsFileBytes ==
    LET total == calculate_directory_size(file_system)
    IN  total.ok /\ total.val = UsedBytes(file_system)

\* the folder restore_item resolves for an item of the bin, as a path
RestoreTarget(fs, key) ==
    RestorePath(fs, Bin(fs).items[key].items[S_original_path].elems, 1).path

\* C5: a successful restore leaves every entry that was in the target
\* folder there, with the kind and the content it had
C5_RestoreNeverOverwrites ==
    \A key \in BinKeys(file_system), response \in BOOLEAN :
        LET r == restore_item(file_system, current_path, tree, key, response)
            target == RestoreTarget(file_system, key)
            before == GetAt(Live(file_system), target)
            after == GetAt(Live(r.fs), target)
        IN  r.done =>
              \A name \in Keys(before) :
                 name \in Keys(after) /\ after.items[name] = before.items[name]

\* C6: a Save As, or the save of an untitled document, under a name that is
\* in the explorer's folder and is not the window's own file never changes
\* the entry of that name without the name conflict being raised
C6_NewFileSaveNeverOverwritesSilently ==
    \A window \in notepads, save_as \in BOOLEAN, text \in vocabulary.texts,
       new_name \in vocabulary.names, overwrite \in BOOLEAN :
        LET isNewFile == save_as \/ window.filename = <<>>
            r == save_notepad_file(file_system, current_path, tree, window,
                                   save_as, text, new_name, overwrite)
            before == Resolve(file_system, current_path).node
            after == Resolve(r.fs, current_path).node
            own == /\ window.filename = <<new_name>>
                   /\ window.file_path = <<current_path>>
        IN  (/\ isNewFile /\ ~own
             /\ new_name \in Keys(before)
             /\ after.items[new_name] # before.items[new_name])
            => Shows(r.shown, "File Exists")

\* C7: whatever the handler (a create, a delete, a restore), a step leaves
\* the payload of every item that stays in the recycle bin as it was
C7_RecycledPayloadsUnchanged ==
    [][\A k \in BinKeys(file_system) \cap BinKeys(file_system') :
          Bin(file_system').items[k].items[S_content] =
              Bin(file_system).items[k].items[S_content]]_vars

\* the path leads to a folder, key by key
IsFolderAt(fs, path) ==
    LET r == Resolve(fs, path) IN r.attached /\ IsDict(r.node)

\* the file system with the payload of an item of the bin put into the
\* folder at target under name, and the item taken out of the bin
WithRestored(fs, key, target, name) ==
    LET fs1 == SetAt(fs, target,
                     DictSet(GetAt(fs, target), name,
                             Bin(fs).items[key].items[S_content]))
    IN  SetAt(fs1, <<S_recyclebin>>, DictDel(Bin(fs1), key))

\* C8: restore puts the payload into the folder original_path leads to when
\* every key of it leads to a folder, and into the root when one does not;
\* with the question answered yes the restore is done; the key is then gone
\* from the bin and nothing else has changed
C8_RestoreTargetResolution ==
    \A key \in BinKeys(file_system), response \in BOOLEAN :
        LET item == Bin(file_system).items[key]
            path == item.items[S_original_path].elems
            name == item.items[S_original_name].text
            target == IF \A i \in 1..Len(path) :
                             IsFolderAt(file_system, SubSeq(path, 1, i))
                      THEN path ELSE <<>>
            r == restore_item(file_system, current_path, tree, key, response)
        IN  /\ response => r.done
            /\ r.done =>
                 /\ key \notin BinKeys(r.fs)
                 /\ \E n \in {name, name \o S_restored} :
                       r.fs = WithRestored(file_system, key, target, n)

\* C8, its case: an item was restored to the root because its folder is
\* gone (or is a file now), while the folder above that one is still there
C8_RestoredToRoot ==
    /\ last.op = "restore" /\ last.done /\ Shows(last.shown, "Path Missing")
    /\ S_Documents \in Keys(file_system)
    /\ S_a \in Keys(file_system)
    /\ S_a \notin Keys(file_system.items[S_Documents])

\* the keys the rows of the Recycle Bin windows show
ShownKeys == UNION {recycle_trees[w] : w \in 1..Len(recycle_trees)}

\* C9: when the name is taken in the target folder, restore either changes
\* nothing (the answer no) or puts the payload under exactly the name with
\* "_restored" appended and takes the key out of the bin (the answer yes);
\* the restore of a key that is not in the bin changes nothing
C9_RestoreWithCollision ==
    \A key \in BinKeys(file_system) \cup ShownKeys, response \in BOOLEAN :
        LET r == restore_item(file_system, current_path, tree, key, response)
        IN  IF key \notin BinKeys(file_system)
            THEN ~r.done /\ r.fs = file_system
            ELSE LET name == Bin(file_system).items[key].items[S_original_name].text
                     target == RestoreTarget(file_system, key)
                 IN  name \in Keys(GetAt(file_system, target)) =>
                        IF response
                        THEN /\ r.done
                             /\ r.fs = WithRestored(file_system, key, target,
                                                    name \o S_restored)
                        ELSE ~r.done /\ r.fs = file_system

\* C9, its case: a restore was answered yes at the name conflict and the
\* item is in the live tree under the name with "_restored"
C9_RestoredUnderNewName ==
    /\ last.op = "restore" /\ last.done /\ Shows(last.shown, "Name Conflict")
    /\ {S_a, S_a_restored} \subseteq Keys(file_system)

\* C10: New File and New Folder with a name that is in the explorer's
\* folder show the name conflict and change nothing; when they create, the
\* file system has exactly one entry more, empty and of the kind asked for,
\* under that name in that folder
C10_CreateNameUniqueness ==
    tree.open =>
      \A name \in vocabulary.names :
        LET folder == Resolve(file_system, current_path).node
            f == create_file_dialog(file_system, current_path, tree, name)
            d == create_folder_dialog(file_system, current_path, tree, name)
        IN  IF name \in Keys(folder)
            THEN /\ f.fs = file_system /\ Shows(f.shown, "File Exists")
                 /\ d.fs = file_system /\ Shows(d.shown, "Folder Exists")
            ELSE /\ f.done => f.fs = SetAt(file_system, current_path,
                                          DictSet(folder, name, PyStr(<<>>)))
                 /\ d.done => d.fs = SetAt(file_system, current_path,
                                          DictSet(folder, name, EmptyDict))

\* C11: when the explorer's path does not lead to a folder (a key of it is
\* missing, or a key or the last one holds a file), listing it fails and
\* gives no rows of entries, New File and New Folder fail, report no
\* success and leave the file system as it was; get_current_node itself
\* raises nothing
C11_InvalidPathFails ==
    (tree.open /\ ~IsFolderAt(file_system, current_path)) =>
        /\ populate_tree(file_system, current_path).raised # ""
        /\ \A name \in vocabulary.names :
              LET f == create_file_dialog(file_system, current_path, tree, name)
                  d == create_folder_dialog(file_system, current_path, tree,
                                            name)
              IN  /\ ~f.done /\ f.fs = file_system
                  /\ ~d.done /\ d.fs = file_system

\* C12: in every state the root has the key '.recyclebin', it holds a
\* dict, every item of that dict has an original name, an original path and
\* a content, and the rows of the root never show it
C12_RecycleBinReserved ==
    /\ S_recyclebin \in Keys(file_system)
    /\ IsDict(Bin(file_system))
    /\ \A k \in Keys(Bin(file_system)) : WellFormed(Bin(file_system).items[k])
    /\ (tree.open /\ current_path = <<>>) =>
           \A row \in tree.rows : row \notin {S_D \o S_recyclebin,
                                              S_F \o S_recyclebin}

\* C13: New File with a free name in the explorer's folder, while the size
\* computation returns (the recycle bin is empty): the empty file is created
\* whenever the bytes in use do not exceed the limit, also when they are
\* exactly the limit, and "Storage Full" is shown only when they exceed it
C13_QuotaOnCreate ==
    (tree.open /\ IsFolderAt(file_system, current_path)
               /\ BinKeys(file_system) = {}) =>
      \A name \in vocabulary.names \ Keys(GetAt(file_system, current_path)) :
        LET f == create_file_dialog(file_system, current_path, tree, name)
        IN  IF UsedBytes(file_system) + 0 <= storage_limit_bytes
            THEN /\ f.done /\ ~Shows(f.shown, "Storage Full")
                 /\ GetAt(f.fs, current_path).items[name] = PyStr(<<>>)
            ELSE /\ ~f.done /\ f.fs = file_system
                 /\ Shows(f.shown, "Storage Full")

\* the file system with the entry at old_name of the folder at path moved to
\* new_name, all below it with it
WithRenamed(fs, path, old_name, new_name) ==
    LET folder == GetAt(fs, path)
    IN  SetAt(fs, path, DictSet(DictDel(folder, old_name), new_name,
                                folder.items[old_name]))

\* C14: Rename of the entry old_name of the explorer's folder to new_name:
\* the same name changes nothing; a name that is taken shows the name
\* conflict and changes nothing; an old_name that is not there fails and
\* changes nothing; otherwise the entry, with all below it, is at new_name
\* and no longer at old_name, and every other entry and every item of the
\* recycle bin is as before
C14_RenameFrame ==
    (tree.open /\ IsFolderAt(file_system, current_path)
               /\ S_recyclebin \in Keys(file_system)) =>
      \A row \in tree.rows \ {S_Back}, new_name \in vocabulary.renames :
        LET old_name == item_name(row)
            folder == GetAt(file_system, current_path)
            r == rename_selected_item(file_system, current_path, tree, row,
                                      new_name)
        IN  IF new_name = old_name THEN r.fs = file_system
            ELSE IF new_name \in Keys(folder)
            THEN ~r.done /\ r.fs = file_system /\ Shows(r.shown, "Name Exists")
            ELSE IF old_name \notin Keys(folder)
            THEN ~r.done /\ r.fs = file_system /\ r.raised # ""
            ELSE /\ r.done
                 /\ r.fs = WithRenamed(file_system, current_path, old_name,
                                       new_name)
                 /\ S_recyclebin \in Keys(r.fs)
                 /\ Bin(r.fs) = Bin(file_system)

\* C15: Empty Recycle Bin on a bin of n items counts n, discards them all
\* and leaves everything outside the bin as it was; the same again at once
\* counts 0, raises nothing and changes nothing
C15_EmptyAllIdempotent ==
    Len(recycle_trees) > 0 =>
        LET n == Cardinality(BinKeys(file_system))
            first == empty_recycle_bin(file_system, current_path, tree)
            second == empty_recycle_bin(first.fs, current_path, first.tree)
        IN  /\ first.count = n /\ first.raised = ""
            /\ first.done <=> n > 0
            /\ BinKeys(first.fs) = {} /\ IsDict(Bin(first.fs))
            /\ Live(first.fs) = Live(file_system)
            /\ second.count = 0 /\ second.raised = "" /\ ~second.done
            /\ second.fs = first.fs

\* C15, its case: a bin that held an item was emptied while a folder the
\* user made is in the live tree
C15_Emptied ==
    /\ last.op = "empty" /\ last.done /\ last.raised = ""
    /\ BinKeys(file_system) = {}
    /\ S_a \in Keys(file_system)

\* C16: Permanently Delete of a key that is in the bin takes out exactly
\* that item and leaves the other items and everything outside the bin as
\* they were, and a restore of that key then does nothing; of a key that is
\* not in the bin (a row of a window that was not repopulated) it ends in
\* an error and changes nothing
C16_Purge ==
    \A key \in BinKeys(file_system) \cup ShownKeys :
        LET r == permanently_delete_item(file_system, key)
            again == restore_item(r.fs, current_path, tree, key, TRUE)
        IN  IF key \in BinKeys(file_system)
            THEN /\ r.done
                 /\ r.fs = SetAt(file_system, <<S_recyclebin>>,
                                 DictDel(Bin(file_system), key))
                 /\ ~again.done /\ again.fs = r.fs
            ELSE ~r.done /\ r.fs = file_system /\ r.raised # ""

\* C16, its case: Permanently Delete was asked for a key that another
\* window had already taken out of the bin
C16_PurgedAbsentKey ==
    /\ last.op = "purge" /\ ~last.done /\ last.raised = "KeyError"
    /\ Len(recycle_trees) = MaxRecycleWindows

\* C17: a plain Save from a window bound to a name and a path: when every
\* key of the path leads to a folder, be it empty, no "Save Error" is
\* shown, the window stays bound to the path, and a save that is written
\* puts the content under the name into that folder and nowhere else; the
\* fall back to the root, with the path rebound to it, happens when a key
\* is missing or leads to a file
C17_PlainSaveTarget ==
    \A window \in notepads, text \in vocabulary.texts :
        ~SaveAsks(window, FALSE) =>
            LET name == window.filename[1]
                path == window.file_path[1]
                r == save_notepad_file(file_system, current_path, tree, window,
                                       FALSE, text, name, TRUE)
            IN  IF IsFolderAt(file_system, path)
                THEN /\ ~Shows(r.shown, "Save Error")
                     /\ r.window = window
                     /\ r.wrote =>
                           r.fs = SetAt(file_system, path,
                                        DictSet(GetAt(file_system, path), name,
                                                PyStr(Strip(text))))
                ELSE /\ Shows(r.shown, "Save Error")
                     /\ r.window.file_path = << <<>> >>

\* C18: in every state the explorer's path leads, key by key, to a folder
\* of the live tree: no key of it is missing, none leads to a file, and the
\* path does not go into the recycle bin
C18_CurrentPathIsLiveFolder ==
    /\ IsFolderAt(file_system, current_path)
    /\ current_path # <<>> => current_path[1] # S_recyclebin

\* C19: for every entry the explorer lists, the name that Rename, Delete and
\* the double click take from the entry's row is the entry's name, and a
\* Delete of the row that is done takes that entry, and no other, out of
\* the folder
C19_SelectionFidelity ==
    (tree.open /\ IsFolderAt(file_system, current_path)) =>
        LET folder == GetAt(file_system, current_path)
        IN  \A name \in Keys(folder) :
              LET row == RowText(name, folder.items[name])
                  d == delete_selected_item(file_system, current_path, tree,
                                            row, now)
              IN  row \in tree.rows =>
                    /\ item_name(row) = name
                    /\ d.done =>
                          Keys(GetAt(d.fs, current_path)) = Keys(folder) \ {name}

\* C20: from the start on, the bytes of the files of the live tree and of
\* the recycled payloads never exceed the limit, and no step increases them
\* but a save that was written
C20_QuotaInvariant ==
    /\ [](UsedBytes(file_system) <= storage_limit_bytes)
    /\ [][UsedBytes(file_system') > UsedBytes(file_system) =>
             last'.op = "save" /\ last'.done]_vars

\* C20, its case: the bytes in use are exactly the limit, part of them in a
\* payload of the recycle bin, after a file that was saved has been deleted
C20_FullWithRecycledBytes ==
    /\ last.op = "delete" /\ last.done
    /\ UsedBytes(file_system) = storage_limit_bytes
    /\ FileBytes(Live(file_system)) < storage_limit_bytes

==========================================================================
